---- MODULE Spec2Model ----
(***************************************************************************)
(* life-notes-api: the two in-memory collections (notes, todos) and the    *)
(* Express handlers that mutate them, src/routes/notes.routes.ts and       *)
(* src/routes/todos.routes.ts.                                             *)
(*                                                                         *)
(* A JavaScript object is a function from its own keys to their values;    *)
(* the object spread {...a, ...b} is Spread(a, b).  A request body is such *)
(* an object: a key that is not in its DOMAIN destructures to undefined.   *)
(* Request fields carry values of their declared JSON type (a string for   *)
(* title, type, priority, habitFrequency; a boolean for isCompleted,       *)
(* isPinned; a number for quantity); the handlers' own checks decide which *)
(* of those values are accepted.                                           *)
(* Instants are natural numbers; new Date() reads a wall clock that never  *)
(* runs backwards and may advance between two reads inside one handler.    *)
(* Due dates are day ordinals (1 is 2025-01-01, 2 is 2025-01-02, ...).     *)
(***************************************************************************)
EXTENDS Integers, Sequences, FiniteSets, TLC

VARIABLES
  todos,      \* const todos: Todo[]
  notes,      \* const notes: Note[]
  now,        \* the wall clock, as last read
  nextId,     \* the next identifier uuidv4() hands out
  request,    \* the request handled last
  response,   \* the response sent to it
  toggleRun   \* observer: the run of consecutive toggle requests on one todo

vars == <<todos, notes, now, nextId, request, response, toggleRun>>

\* Bounds of the model: the identifiers handed out in a run (in the runs that
\* list todos, MaxListIds), the instants of the clock, the due dates.
MaxIds == 2
MaxListIds == 3
MaxClock == 2
MaxDue == 2

\* null (completedAt, dueDate) and undefined (a string-valued key left unset).
Null == 0
Undefined == "undefined"

Ids == 1..MaxIds
ListIds == 1..MaxListIds

---------------------------------------------------------------------------
\* JavaScript helpers.

EmptyObject == <<>>

\* {...a, ...b}: the keys of b override those of a.
Spread(a, b) == b @@ a

\* const { k = dflt } = body
Get(body, k, dflt) == IF k \in DOMAIN body THEN body[k] ELSE dflt

\* The sub-object of body with the keys the handler destructures and that are
\* not undefined: ...(k !== undefined && { k }) for each k of keys.
Pick(body, keys) == [k \in (DOMAIN body) \cap keys |-> body[k]]

\* Mutant: only undefined counts as missing.
Truthy_AcceptsEmpty(v) == v # Undefined

\* Truthiness of a string-or-undefined value.
Truthy(v) == v \notin {Undefined, ""}

\* cond && { k: v } spread into an object literal.
When(cond, obj) == IF cond THEN obj ELSE EmptyObject

\* array.findIndex(e => e.id === id), 1-based; 0 stands for -1.
FindIndex(arr, id) ==
  IF \E i \in 1..Len(arr) : arr[i].id = id
  THEN CHOOSE i \in 1..Len(arr) :
         /\ arr[i].id = id
         /\ \A j \in 1..(i - 1) : arr[j].id # id
  ELSE 0

\* Mutant: the element after the one found is removed (the last one when the
\* one found is the last).
Splice_OffByOne(arr, index) ==
  LET at == IF index < Len(arr) THEN index + 1 ELSE 1 IN
  [i \in 1..(Len(arr) - 1) |-> IF i < at THEN arr[i] ELSE arr[i + 1]]

\* array.splice(index, 1) applied to arr: what is left of arr.
Splice(arr, index) ==
  [i \in 1..(Len(arr) - 1) |-> IF i < index THEN arr[i] ELSE arr[i + 1]]

\* The instants a new Date() call may return when the clock last read `from`.
ClockReads(from) == from..MaxClock

---------------------------------------------------------------------------
\* Responses.

Json(status, body) == [status |-> status, body |-> body]

Failure(status, message) ==
  Json(status, [success |-> FALSE, error |-> [message |-> message]])

Success(status, data) == Json(status, [success |-> TRUE, data |-> data])

Request(method, path, id, body) ==
  [method |-> method, path |-> path, id |-> id, body |-> body]

---------------------------------------------------------------------------
\* Observer of consecutive PATCH /api/todos/:id/complete requests: the todo
\* toggled, how many toggles in a row it has had (1 or 2), and the todo as it
\* was before the first of them.  Any other request ends the run.

NoRun == [id |-> 0, count |-> 0]

RunAfterToggle(run, old) ==
  IF run.id = old.id /\ run.count = 1
  THEN [id |-> old.id, count |-> 2, original |-> run.original]
  ELSE [id |-> old.id, count |-> 1, original |-> old]

---------------------------------------------------------------------------
\* Todos router.

\* type TodoType
TodoType ==
  {"task", "goal", "habit", "reminder", "shopping", "idea", "bookmark"}

\* type Priority
Priority == {"low", "medium", "high", "urgent"}

validTypes ==
  <<"task", "goal", "habit", "reminder", "shopping", "idea", "bookmark">>

\* `Invalid type. Must be one of: ${validTypes.join(', ')}`
InvalidType ==
  "Invalid type. Must be one of: task, goal, habit, reminder, shopping, idea, bookmark"

Includes(arr, v) == \E i \in 1..Len(arr) : arr[i] = v

\* Mutant: the update also merges a type the body supplies.
TodoUpdateKeys_WithType ==
  {"type", "title", "description", "priority", "isCompleted", "dueDate",
   "tags", "habitFrequency", "reminderTime", "url", "quantity"}

\* The fields PUT /api/todos/:id destructures from the body.
TodoUpdateKeys ==
  {"title", "description", "priority", "isCompleted", "dueDate", "tags",
   "habitFrequency", "reminderTime", "url", "quantity"}

\* The object literal of POST /api/todos.
NewTodo(body, id, createdAt, updatedAt) ==
  LET type == Get(body, "type", "task")
      base == [id |-> id,
               type |-> type,
               title |-> body.title,
               description |-> Get(body, "description", ""),
               priority |-> Get(body, "priority", "medium"),
               isCompleted |-> FALSE,
               dueDate |-> Get(body, "dueDate", Null),
               tags |-> Get(body, "tags", <<>>)]
      habit == When(type = "habit",
                 [habitFrequency |->
                    IF Truthy(Get(body, "habitFrequency", Undefined))
                    THEN body.habitFrequency ELSE "daily"])
      reminder == When(type = "reminder",
                    [reminderTime |-> Get(body, "reminderTime", Undefined)])
      bookmark == When(type = "bookmark",
                    [url |-> Get(body, "url", Undefined)])
      shopping == When(type = "shopping",
                    [quantity |->
                       IF "quantity" \in DOMAIN body /\ body.quantity # 0
                       THEN body.quantity ELSE 1])
      stamps == [createdAt |-> createdAt,
                 updatedAt |-> updatedAt,
                 completedAt |-> Null]
  IN  Spread(Spread(Spread(Spread(Spread(base, habit), reminder), bookmark),
                    shopping), stamps)

\* POST /api/todos
PostTodo(body, idLimit) ==
  /\ request' = Request("POST", "/api/todos", 0, body)
  /\ IF ~Truthy(Get(body, "title", Undefined))
     THEN /\ response' = Failure(400, "Title is required")
          /\ UNCHANGED <<todos, notes, now, nextId>>
          /\ toggleRun' = NoRun
     ELSE IF ~Includes(validTypes, Get(body, "type", "task"))
     THEN /\ response' = Failure(400, InvalidType)
          /\ UNCHANGED <<todos, notes, now, nextId>>
          /\ toggleRun' = NoRun
     ELSE /\ nextId <= idLimit
          /\ \E t1 \in ClockReads(now) : \E t2 \in ClockReads(t1) :
               LET todo == NewTodo(body, nextId, t1, t2) IN
               /\ todos' = Append(todos, todo)
               /\ response' = Success(201, todo)
               /\ now' = t2
          /\ nextId' = nextId + 1
          /\ toggleRun' = NoRun
          /\ UNCHANGED notes

\* Mutant: the branch that clears completedAt is lost.
PutCompletedAt_NoClear(old, body, instant) ==
  IF "isCompleted" \in DOMAIN body /\ body.isCompleted /\ ~old.isCompleted
  THEN instant
  ELSE old.completedAt

\* Mutant: completedAt is stamped whenever the body says completed.
PutCompletedAt_Restamp(old, body, instant) ==
  IF "isCompleted" \in DOMAIN body
  THEN IF body.isCompleted THEN instant ELSE Null
  ELSE old.completedAt

\* The completedAt that PUT /api/todos/:id computes.
PutCompletedAt(old, body, instant) ==
  IF "isCompleted" \in DOMAIN body
  THEN IF body.isCompleted /\ ~old.isCompleted THEN instant
       ELSE IF ~body.isCompleted THEN Null
       ELSE old.completedAt
  ELSE old.completedAt

\* Mutant: isCompleted is destructured with a default of false.
UpdatedTodo_DefaultsCompleted(old, body, t1, t2) ==
  LET b == Spread([isCompleted |-> FALSE], body) IN
  Spread(Spread(old, Pick(b, {"title", "description", "priority",
                              "isCompleted", "dueDate", "tags",
                              "habitFrequency", "reminderTime", "url",
                              "quantity"})),
         [completedAt |-> IF b.isCompleted THEN old.completedAt ELSE Null,
          updatedAt |-> t2])

\* The clock is read for completedAt only in the branch that completes a
\* pending todo.
PutFirstReads(old, body) ==
  IF "isCompleted" \in DOMAIN body /\ body.isCompleted /\ ~old.isCompleted
  THEN ClockReads(now)
  ELSE {now}

\* The object literal that PUT /api/todos/:id stores.
UpdatedTodo(old, body, t1, t2) ==
  Spread(Spread(old, Pick(body, TodoUpdateKeys)),
         [completedAt |-> PutCompletedAt(old, body, t1), updatedAt |-> t2])

\* PUT /api/todos/:id
PutTodo(id, body) ==
  LET index == FindIndex(todos, id) IN
  /\ request' = Request("PUT", "/api/todos", id, body)
  /\ IF index = 0
     THEN /\ response' = Failure(404, "Todo not found")
          /\ UNCHANGED <<todos, notes, now, nextId>>
          /\ toggleRun' = NoRun
     ELSE /\ \E t1 \in PutFirstReads(todos[index], body) :
            \E t2 \in ClockReads(t1) :
               LET todo == UpdatedTodo(todos[index], body, t1, t2) IN
               /\ todos' = [todos EXCEPT ![index] = todo]
               /\ response' = Success(200, todo)
               /\ now' = t2
          /\ toggleRun' = NoRun
          /\ UNCHANGED <<notes, nextId>>

\* Mutant: the toggle marks the todo completed instead of flipping it.
ToggledTodo_NoFlip(old, t1, t2) ==
  Spread(old, [isCompleted |-> TRUE, completedAt |-> t1, updatedAt |-> t2])

\* The object literal that PATCH /api/todos/:id/complete stores.
ToggledTodo(old, t1, t2) ==
  LET newCompleted == ~old.isCompleted IN
  Spread(old, [isCompleted |-> newCompleted,
               completedAt |-> IF newCompleted THEN t1 ELSE Null,
               updatedAt |-> t2])

\* PATCH /api/todos/:id/complete
PatchComplete(id) ==
  LET index == FindIndex(todos, id) IN
  /\ request' = Request("PATCH", "/api/todos", id, EmptyObject)
  /\ IF index = 0
     THEN /\ response' = Failure(404, "Todo not found")
          /\ UNCHANGED <<todos, notes, now, nextId>>
          /\ toggleRun' = NoRun
     ELSE /\ \E t1 \in ClockReads(now) : \E t2 \in ClockReads(t1) :
               LET todo == ToggledTodo(todos[index], t1, t2) IN
               /\ todos' = [todos EXCEPT ![index] = todo]
               /\ response' = Success(200, todo)
               /\ now' = t2
          /\ toggleRun' = RunAfterToggle(toggleRun, todos[index])
          /\ UNCHANGED <<notes, nextId>>

\* DELETE /api/todos/:id
DeleteTodo(id) ==
  LET index == FindIndex(todos, id) IN
  /\ request' = Request("DELETE", "/api/todos", id, EmptyObject)
  /\ IF index = 0
     THEN /\ response' = Failure(404, "Todo not found")
          /\ UNCHANGED todos
     ELSE /\ todos' = Splice(todos, index)
          /\ response' = Success(200, todos[index])
  /\ toggleRun' = NoRun
  /\ UNCHANGED <<notes, now, nextId>>

---------------------------------------------------------------------------
\* GET /api/todos: filter, sort, count.

priorityOrder == [urgent |-> 0, high |-> 1, medium |-> 2, low |-> 3]

\* new Date(dueDate).getTime(): the day ordinal orders as the time value does.
GetTime(dueDate) == dueDate

\* text.toLowerCase().includes(searchLower), for the one-letter lower-case
\* titles and the empty descriptions of this model.
LowerIncludes(text, searchLower) == searchLower = "" \/ text = searchLower

\* The todo passes every filter the query switches on.  The handler applies
\* the filters one after the other; each keeps the order of what it keeps.
Matches(t, query) ==
  /\ Truthy(Get(query, "type", Undefined)) => t.type = query.type
  /\ Truthy(Get(query, "priority", Undefined)) => t.priority = query.priority
  /\ "completed" \in DOMAIN query =>
       (t.isCompleted <=> (query.completed = "true"))
  /\ Truthy(Get(query, "tag", Undefined)) => Includes(t.tags, query.tag)
  /\ Truthy(Get(query, "search", Undefined)) =>
       (LowerIncludes(t.title, query.search)
          \/ LowerIncludes(t.description, query.search))
  /\ "dueBefore" \in DOMAIN query =>
       (t.dueDate # Null /\ GetTime(t.dueDate) <= GetTime(query.dueBefore))
  /\ "dueAfter" \in DOMAIN query =>
       (t.dueDate # Null /\ GetTime(t.dueDate) >= GetTime(query.dueAfter))

Filtered(arr, query) ==
  LET Keep(t) == Matches(t, query) IN SelectSeq(arr, Keep)

HasRank(p) == p \in DOMAIN priorityOrder

\* priorityOrder[a.priority] !== priorityOrder[b.priority]; a priority that is
\* no key of priorityOrder looks up undefined.
RankDiffers(a, b) ==
  IF HasRank(a.priority) /\ HasRank(b.priority)
  THEN priorityOrder[a.priority] # priorityOrder[b.priority]
  ELSE HasRank(a.priority) # HasRank(b.priority)

\* The comparator returns NaN: a number minus undefined.
CompareIsNaN(a, b) ==
  /\ a.isCompleted = b.isCompleted
  /\ RankDiffers(a, b)
  /\ ~(HasRank(a.priority) /\ HasRank(b.priority))

\* The comparator of filtered.sort, where it returns a number.
comparefn(a, b) ==
  IF a.isCompleted # b.isCompleted THEN (IF a.isCompleted THEN 1 ELSE -1)
  ELSE IF RankDiffers(a, b)
  THEN priorityOrder[a.priority] - priorityOrder[b.priority]
  ELSE IF a.dueDate # Null /\ b.dueDate # Null
  THEN GetTime(a.dueDate) - GetTime(b.dueDate)
  ELSE IF a.dueDate # Null THEN -1
  ELSE IF b.dueDate # Null THEN 1
  ELSE 0

\* SortCompare of Array.prototype.sort: a NaN from the comparator counts as +0.
SortCompare(a, b) == IF CompareIsNaN(a, b) THEN 0 ELSE comparefn(a, b)

Sign(n) == IF n < 0 THEN -1 ELSE IF n > 0 THEN 1 ELSE 0

\* The comparator is a consistent comparator for the values of arr, as
\* Array.prototype.sort requires for a defined order.
ConsistentComparator(arr) ==
  LET S == {arr[i] : i \in 1..Len(arr)}
      c(a, b) == Sign(SortCompare(a, b))
  IN  /\ \A a \in S : c(a, a) = 0
      /\ \A a, b \in S : c(a, b) = -c(b, a)
      /\ \A a, b, d \in S :
           /\ (c(a, b) = 0 /\ c(b, d) = 0) => c(a, d) = 0
           /\ (c(a, b) < 0 /\ c(b, d) < 0) => c(a, d) < 0
           /\ (c(a, b) > 0 /\ c(b, d) > 0) => c(a, d) > 0

\* x put into sorted after every element that does not sort after it.
RECURSIVE InsertSorted(_, _)
InsertSorted(sorted, x) ==
  IF sorted = <<>> THEN <<x>>
  ELSE IF SortCompare(sorted[Len(sorted)], x) > 0
  THEN Append(InsertSorted(SubSeq(sorted, 1, Len(sorted) - 1), x),
              sorted[Len(sorted)])
  ELSE Append(sorted, x)

\* The stable sort of arr.
RECURSIVE StableSort(_)
StableSort(arr) ==
  IF arr = <<>> THEN <<>>
  ELSE InsertSorted(StableSort(SubSeq(arr, 1, Len(arr) - 1)), arr[Len(arr)])

Reorderings(arr) ==
  LET n == Len(arr)
      P == {p \in [1..n -> 1..n] : \A i, j \in 1..n : p[i] = p[j] => i = j}
  IN  {[i \in 1..n |-> arr[p[i]]] : p \in P}

\* What filtered.sort(comparefn) may leave in filtered: the stable sort, and
\* with a comparator that is not consistent an implementation-defined order.
SortOutcomes(arr) ==
  IF ConsistentComparator(arr) THEN {StableSort(arr)} ELSE Reorderings(arr)

\* The meta object of the list response.
Meta(filtered) ==
  LET Done(t) == t.isCompleted
      Pending(t) == ~t.isCompleted
  IN  [total |-> Len(filtered),
       byType |-> [ty \in TodoType |->
                     LET OfType(t) == t.type = ty
                     IN  Len(SelectSeq(filtered, OfType))],
       completed |-> Len(SelectSeq(filtered, Done)),
       pending |-> Len(SelectSeq(filtered, Pending))]

\* GET /api/todos
GetTodos(query) ==
  /\ request' = Request("GET", "/api/todos", 0, query)
  /\ \E sorted \in SortOutcomes(Filtered(todos, query)) :
       response' = Json(200, [success |-> TRUE, data |-> sorted,
                              meta |-> Meta(sorted)])
  /\ toggleRun' = NoRun
  /\ UNCHANGED <<todos, notes, now, nextId>>

---------------------------------------------------------------------------
\* Notes router.

NoteUpdateKeys == {"title", "content", "tags", "isPinned"}

\* The object literal of POST /api/notes.
NewNote(body, id, createdAt, updatedAt) ==
  [id |-> id,
   title |-> body.title,
   content |-> Get(body, "content", ""),
   tags |-> Get(body, "tags", <<>>),
   isPinned |-> Get(body, "isPinned", FALSE),
   createdAt |-> createdAt,
   updatedAt |-> updatedAt]

\* POST /api/notes
PostNote(body, idLimit) ==
  /\ request' = Request("POST", "/api/notes", 0, body)
  /\ toggleRun' = NoRun
  /\ IF ~Truthy(Get(body, "title", Undefined))
     THEN /\ response' = Failure(400, "Title is required")
          /\ UNCHANGED <<todos, notes, now, nextId>>
     ELSE /\ nextId <= idLimit
          /\ \E t1 \in ClockReads(now) : \E t2 \in ClockReads(t1) :
               LET note == NewNote(body, nextId, t1, t2) IN
               /\ notes' = Append(notes, note)
               /\ response' = Success(201, note)
               /\ now' = t2
          /\ nextId' = nextId + 1
          /\ UNCHANGED todos

\* The object literal that PUT /api/notes/:id stores.
UpdatedNote(old, body, instant) ==
  Spread(Spread(old, Pick(body, NoteUpdateKeys)), [updatedAt |-> instant])

\* PUT /api/notes/:id
PutNote(id, body) ==
  LET index == FindIndex(notes, id) IN
  /\ request' = Request("PUT", "/api/notes", id, body)
  /\ toggleRun' = NoRun
  /\ IF index = 0
     THEN /\ response' = Failure(404, "Note not found")
          /\ UNCHANGED <<todos, notes, now, nextId>>
     ELSE /\ \E t \in ClockReads(now) :
               LET note == UpdatedNote(notes[index], body, t) IN
               /\ notes' = [notes EXCEPT ![index] = note]
               /\ response' = Success(200, note)
               /\ now' = t
          /\ UNCHANGED <<todos, nextId>>

\* DELETE /api/notes/:id
DeleteNote(id) ==
  LET index == FindIndex(notes, id) IN
  /\ request' = Request("DELETE", "/api/notes", id, EmptyObject)
  /\ toggleRun' = NoRun
  /\ IF index = 0
     THEN /\ response' = Failure(404, "Note not found")
          /\ UNCHANGED notes
     ELSE /\ notes' = Splice(notes, index)
          /\ response' = Success(200, notes[index])
  /\ UNCHANGED <<todos, now, nextId>>

---------------------------------------------------------------------------
\* Time passing between two requests.
Tick ==
  /\ now < MaxClock
  /\ now' = now + 1
  /\ UNCHANGED <<todos, notes, nextId, request, response, toggleRun>>

\* Both arrays are empty at process start.
Init ==
  /\ todos = <<>>
  /\ notes = <<>>
  /\ now = 1
  /\ nextId = 1
  /\ request = Request("NONE", "", 0, EmptyObject)
  /\ response = Json(0, EmptyObject)
  /\ toggleRun = NoRun

---------------------------------------------------------------------------
\* The completion life cycle: create, update, toggle, delete.

Opt(k, S) == {EmptyObject} \cup {k :> v : v \in S}

CompletionPostBodies == {[title |-> "a"]}

CompletionPutBodies ==
  Opt("isCompleted", BOOLEAN)

CompletionPost == \E body \in CompletionPostBodies : PostTodo(body, MaxIds)

CompletionPut == \E id \in Ids : \E body \in CompletionPutBodies : PutTodo(id, body)

Toggle == \E id \in Ids : PatchComplete(id)

Delete == \E id \in Ids : DeleteTodo(id)

NextCompletion == CompletionPost \/ CompletionPut \/ Toggle \/ Delete \/ Tick

SpecCompletion == Init /\ [][NextCompletion]_vars

---------------------------------------------------------------------------
\* Claims about the completion life cycle (SpecCompletion).

TodoById(id) == todos[FindIndex(todos, id)]

Created == request.method = "POST" /\ response.status = 201

\* C1: every todo of the collection has completedAt non-null iff isCompleted
\* is true, and the todo a create request has just appended has isCompleted
\* false and completedAt null.
C1_CompletedAtIffCompleted ==
  /\ \A i \in 1..Len(todos) :
       (todos[i].completedAt # Null) <=> todos[i].isCompleted
  /\ (Created /\ request.path = "/api/todos") =>
       /\ response.body.data.isCompleted = FALSE
       /\ response.body.data.completedAt = Null
       /\ todos[Len(todos)] = response.body.data

\* C1 witness: an update has completed one todo while another is pending.
C1_Witness ==
  /\ request.method = "PUT" /\ response.status = 200
  /\ "isCompleted" \in DOMAIN request.body
  /\ \E i, j \in 1..Len(todos) :
       /\ todos[i].isCompleted /\ todos[i].completedAt # Null
       /\ ~todos[j].isCompleted /\ todos[j].completedAt = Null

TwoToggles == toggleRun.count = 2 /\ FindIndex(todos, toggleRun.id) # 0

\* C2 as stated: after two consecutive toggle requests on a todo, whatever its
\* completion state was, it has its original isCompleted value and
\* completedAt = null.
C2_AsStated ==
  TwoToggles =>
    /\ TodoById(toggleRun.id).isCompleted = toggleRun.original.isCompleted
    /\ TodoById(toggleRun.id).completedAt = Null

\* C2 as amended: after two consecutive toggle requests on a todo it has its
\* original isCompleted value; completedAt is null if the todo was pending
\* before them, and is the instant of the second toggle (non-null, no earlier
\* than the original completedAt) if it was completed before them.
C2_TwoTogglesRestoreState ==
  TwoToggles =>
    LET t == TodoById(toggleRun.id)
        o == toggleRun.original
    IN  /\ t.isCompleted = o.isCompleted
        /\ ~o.isCompleted => t.completedAt = Null
        /\ o.isCompleted =>
             /\ t.completedAt # Null
             /\ o.completedAt <= t.completedAt
             /\ t.completedAt <= t.updatedAt
             /\ t.updatedAt <= now

\* C2 witness: two consecutive toggles have acted on a todo that was completed
\* before them, and its completedAt has moved.
C2_Witness ==
  /\ TwoToggles
  /\ request.method = "PATCH" /\ response.status = 200
  /\ toggleRun.original.isCompleted
  /\ TodoById(toggleRun.id).completedAt > toggleRun.original.completedAt

PutFound(id, body) == PutTodo(id, body) /\ FindIndex(todos, id) # 0

\* C3: a PUT on an existing todo sets completedAt to the current instant when
\* it completes a pending todo, to null when the body says isCompleted false,
\* leaves it alone when the body omits isCompleted, and on a completed todo a
\* body saying isCompleted true keeps completedAt while updatedAt is refreshed.
C3_PutCompletedAt ==
  [][\A id \in Ids : \A body \in CompletionPutBodies :
       PutFound(id, body) =>
         LET old == TodoById(id)
             new == todos'[FindIndex(todos, id)]
             sets == "isCompleted" \in DOMAIN body
         IN  /\ (sets /\ body.isCompleted /\ ~old.isCompleted) =>
                  (new.completedAt \in now..now' /\ new.completedAt # Null)
             /\ (sets /\ ~body.isCompleted) => new.completedAt = Null
             /\ ~sets => new.completedAt = old.completedAt
             /\ (sets /\ body.isCompleted /\ old.isCompleted) =>
                  (new.completedAt = old.completedAt /\ new.updatedAt = now')
             /\ new.updatedAt = now' /\ new.updatedAt >= now
    ]_vars

\* C3 witness: a PUT saying isCompleted true has acted on an already completed
\* todo: completedAt kept its earlier value and updatedAt moved past it.
C3_Witness ==
  /\ request.method = "PUT" /\ response.status = 200
  /\ "isCompleted" \in DOMAIN request.body /\ request.body.isCompleted
  /\ response.body.data.completedAt # Null
  /\ response.body.data.completedAt < response.body.data.updatedAt

---------------------------------------------------------------------------
\* Listing: todos of several priorities and due dates, completed or not.

ListPostBodies ==
  {[title |-> "a", priority |-> "low"],
   [title |-> "a", priority |-> "bogus"],
   [title |-> "a", priority |-> "urgent", dueDate |-> MaxDue],
   [title |-> "a", dueDate |-> 1]}

ListQueries == {EmptyObject, [completed |-> "false"]}

ListPost == \E body \in ListPostBodies : PostTodo(body, MaxListIds)

ListToggle == \E id \in ListIds : PatchComplete(id)

List == \E query \in ListQueries : GetTodos(query)

NextList == ListPost \/ ListToggle \/ List

SpecList == Init /\ [][NextList]_vars

---------------------------------------------------------------------------
\* Claims about the list response and the priorities (SpecList).

Listed == request.method = "GET" /\ response.status = 200

\* The priority ranks as the specification gives them.
PriorityRank(p) ==
  CASE p = "urgent" -> 0 [] p = "high" -> 1 [] p = "medium" -> 2 [] p = "low" -> 3

\* L[i] may stand before L[j] in a list response.
InOrder(a, b) ==
  /\ ~(a.isCompleted /\ ~b.isCompleted)
  /\ (a.isCompleted = b.isCompleted
        /\ a.priority \in Priority /\ b.priority \in Priority)
       => PriorityRank(a.priority) <= PriorityRank(b.priority)
  /\ (a.isCompleted = b.isCompleted /\ a.priority = b.priority)
       => ~(b.dueDate # Null /\ (a.dueDate = Null \/ a.dueDate > b.dueDate))

\* C7 as stated: in every todo list response incomplete todos precede
\* completed ones, within one completion state a lower priority rank precedes
\* a higher one, and within one priority an earlier due date precedes a later
\* one and a due date precedes none.
C7_AsStated ==
  Listed =>
    LET L == response.body.data IN
    \A i, j \in 1..Len(L) : i < j => InOrder(L[i], L[j])

\* The same order, for the list responses that hold no todo with a priority
\* outside low, medium, high, urgent.
C7_OrderedAmongValidPriorities ==
  Listed =>
    LET L == response.body.data IN
    (\A i \in 1..Len(L) : L[i].priority \in Priority) =>
      \A i, j \in 1..Len(L) : i < j => InOrder(L[i], L[j])

\* C8 as stated: every todo of the collection has a priority among low,
\* medium, high, urgent, and a todo created without a priority has medium.
C8_AsStated ==
  /\ \A i \in 1..Len(todos) : todos[i].priority \in Priority
  /\ (Created /\ "priority" \notin DOMAIN request.body) =>
       response.body.data.priority = "medium"

---------------------------------------------------------------------------
\* The 7 types and their type-specific fields.

TypesPostBodies ==
  {[title |-> "a"] @@ a : a \in Opt("type", {"habit", "bogus"})}

TypesPutBodies == {[type |-> "goal"]}

TypesQueries == {EmptyObject, [type |-> "habit"]}

TypesPost == \E body \in TypesPostBodies : PostTodo(body, MaxIds)

TypesPut == \E id \in Ids : \E body \in TypesPutBodies : PutTodo(id, body)

TypesList == \E query \in TypesQueries : GetTodos(query)

NextTypes == TypesPost \/ TypesPut \/ Toggle \/ TypesList

SpecTypes == Init /\ [][NextTypes]_vars

---------------------------------------------------------------------------
\* Creation with each kind of type-specific field supplied or not.

CreatePostBodies ==
  {[title |-> "a"] @@ a @@ b :
     a \in Opt("type", {"goal", "habit", "reminder", "bookmark", "shopping"}),
     b \in {EmptyObject, [quantity |-> 0], [quantity |-> 2],
            [habitFrequency |-> "weekly"],
            [reminderTime |-> "09:00", url |-> "u"]}}

CreatePost == \E body \in CreatePostBodies : PostTodo(body, MaxIds)

NextCreate == CreatePost \/ Delete \/ Tick

SpecCreate == Init /\ [][NextCreate]_vars

---------------------------------------------------------------------------
\* Claims about the types (SpecCreate, SpecTypes).

\* C9 as stated: a created todo carries habitFrequency iff it is a habit (the
\* supplied value, or daily if none was supplied), reminderTime iff it is a
\* reminder, url iff it is a bookmark, quantity iff it is a shopping item (the
\* supplied value, or 1 if none was supplied).
C9_AsStated ==
  Created =>
    LET t == response.body.data
        b == request.body
    IN  /\ ("habitFrequency" \in DOMAIN t) <=> (t.type = "habit")
        /\ ("reminderTime" \in DOMAIN t) <=> (t.type = "reminder")
        /\ ("url" \in DOMAIN t) <=> (t.type = "bookmark")
        /\ ("quantity" \in DOMAIN t) <=> (t.type = "shopping")
        /\ t.type = "habit" =>
             t.habitFrequency = Get(b, "habitFrequency", "daily")
        /\ t.type = "shopping" => t.quantity = Get(b, "quantity", 1)

\* The type-specific keys of a created todo, whatever their values.
C9_KeysFollowType ==
  Created =>
    LET t == response.body.data IN
    /\ ("habitFrequency" \in DOMAIN t) <=> (t.type = "habit")
    /\ ("reminderTime" \in DOMAIN t) <=> (t.type = "reminder")
    /\ ("url" \in DOMAIN t) <=> (t.type = "bookmark")
    /\ ("quantity" \in DOMAIN t) <=> (t.type = "shopping")

MetaAddsUp(m, data) ==
  /\ m.total = Len(data)
  /\ m.byType["task"] + m.byType["goal"] + m.byType["habit"]
       + m.byType["reminder"] + m.byType["shopping"] + m.byType["idea"]
       + m.byType["bookmark"] = m.total
  /\ m.completed + m.pending = m.total

\* C10: every todo has one of the 7 types, no request changes the type of a
\* todo that stays in the collection (not a PUT whose body supplies a type,
\* not a toggle), and in every list response the 7 byType counts add up to
\* total, as completed and pending do.
C10_TypeFixed ==
  [][/\ \A j \in 1..Len(todos') : todos'[j].type \in TodoType
     /\ \A i \in 1..Len(todos) : \A j \in 1..Len(todos') :
          todos'[j].id = todos[i].id => todos'[j].type = todos[i].type
     /\ (request'.method = "GET" /\ response'.status = 200) =>
          MetaAddsUp(response'.body.meta, response'.body.data)
    ]_vars

\* C10 witness: a PUT whose body supplies another type has been answered 200
\* with the todo's type as it was.
C10_Witness ==
  /\ request.method = "PUT" /\ response.status = 200
  /\ "type" \in DOMAIN request.body
  /\ response.body.data.type # request.body.type
  /\ response.body.data.type \in {"habit", "shopping"}

---------------------------------------------------------------------------
\* Both routers, with the bodies that their validation and their merge tell
\* apart: a title missing, empty or given; a type missing, unknown or valid;
\* an update with an empty body or with one field.

FramePostTodoBodies ==
  {a @@ b : a \in Opt("title", {"", "a"}), b \in Opt("type", {"bogus"})}

FramePutTodoBodies == {EmptyObject, [isCompleted |-> TRUE]}

FramePostNoteBodies ==
  {a @@ b : a \in Opt("title", {"", "n"}), b \in Opt("isPinned", {TRUE})}

FramePutNoteBodies == {EmptyObject, [isPinned |-> FALSE]}

FramePostTodo == \E body \in FramePostTodoBodies : PostTodo(body, MaxIds)

FramePutTodo == \E id \in Ids : \E body \in FramePutTodoBodies : PutTodo(id, body)

FramePostNote == \E body \in FramePostNoteBodies : PostNote(body, MaxIds)

FramePutNote == \E id \in Ids : \E body \in FramePutNoteBodies : PutNote(id, body)

FrameDeleteNote == \E id \in Ids : DeleteNote(id)

NextFrame ==
  \/ FramePostTodo \/ FramePutTodo \/ Delete
  \/ FramePostNote \/ FramePutNote \/ FrameDeleteNote
  \/ Tick

SpecFrame == Init /\ [][NextFrame]_vars

---------------------------------------------------------------------------
\* Claims about what a request changes and what it leaves alone (SpecFrame).

\* arr2 is arr with entity index replaced by one that differs from it in
\* updatedAt alone, and that no earlier than before.
OnlyUpdatedAtMoved(arr, arr2, index) ==
  /\ Len(arr2) = Len(arr)
  /\ \A j \in 1..Len(arr) : j # index => arr2[j] = arr[j]
  /\ DOMAIN arr2[index] = DOMAIN arr[index]
  /\ \A k \in DOMAIN arr[index] \ {"updatedAt"} : arr2[index][k] = arr[index][k]
  /\ arr2[index].updatedAt >= arr[index].updatedAt

\* C4: a PUT with an empty body on an existing note or todo changes nothing
\* but that entity's updatedAt, which does not decrease: its other fields, the
\* other entities, the size and the order of both collections stay as they are.
C4_EmptyPutFrame ==
  [][\A id \in Ids :
       /\ (PutTodo(id, EmptyObject) /\ FindIndex(todos, id) # 0) =>
            (OnlyUpdatedAtMoved(todos, todos', FindIndex(todos, id))
               /\ notes' = notes)
       /\ (PutNote(id, EmptyObject) /\ FindIndex(notes, id) # 0) =>
            (OnlyUpdatedAtMoved(notes, notes', FindIndex(notes, id))
               /\ todos' = todos)
    ]_vars

\* C4 witness: an empty PUT has acted on a completed todo beside another
\* entity, and its updatedAt has moved past its completedAt.
C4_Witness ==
  /\ request.method = "PUT" /\ request.body = EmptyObject
  /\ request.path = "/api/todos" /\ response.status = 200
  /\ response.body.data.isCompleted
  /\ response.body.data.updatedAt > response.body.data.completedAt
  /\ Len(todos) + Len(notes) > 1

\* arr2 is arr without the entity at index, the others in their order.
RemovedAt(arr, arr2, index) ==
  /\ Len(arr2) = Len(arr) - 1
  /\ \A j \in 1..Len(arr2) : arr2[j] = IF j < index THEN arr[j] ELSE arr[j + 1]
  /\ \A j \in 1..Len(arr2) : arr2[j].id # arr[index].id

\* C5: a DELETE for an id that is not in the collection answers 404 and leaves
\* both collections as they are; a DELETE for an id that is in it removes that
\* entity alone, answers 200 with it, and leaves every other entity as it is.
C5_Delete ==
  [][\A id \in Ids :
       /\ DeleteTodo(id) =>
            IF FindIndex(todos, id) = 0
            THEN response'.status = 404 /\ todos' = todos /\ notes' = notes
            ELSE /\ response'.status = 200
                 /\ response'.body.data = TodoById(id)
                 /\ RemovedAt(todos, todos', FindIndex(todos, id))
                 /\ notes' = notes
       /\ DeleteNote(id) =>
            IF FindIndex(notes, id) = 0
            THEN response'.status = 404 /\ todos' = todos /\ notes' = notes
            ELSE /\ response'.status = 200
                 /\ response'.body.data = notes[FindIndex(notes, id)]
                 /\ RemovedAt(notes, notes', FindIndex(notes, id))
                 /\ todos' = todos
    ]_vars

\* C5 witness: a DELETE has removed the first of two todos and the second is
\* still there.
C5_Witness ==
  /\ request.method = "DELETE" /\ request.path = "/api/todos"
  /\ response.status = 200
  /\ Len(todos) = 1
  /\ todos[1].id > response.body.data.id

Rejected ==
  response'.status = 400 /\ todos' = todos /\ notes' = notes

NoTitle(body) == "title" \notin DOMAIN body \/ body.title = ""

\* C6: a create request for a note or a todo without a title, or with an empty
\* one, answers 400 whatever else it carries, and a todo create request with a
\* title and a type outside the 7 valid types answers 400; nothing is inserted.
C6_CreateRejected ==
  [][/\ \A body \in FramePostTodoBodies :
          PostTodo(body, MaxIds) =>
            /\ NoTitle(body) => Rejected
            /\ (~NoTitle(body) /\ "type" \in DOMAIN body
                  /\ body.type \notin TodoType) => Rejected
     /\ \A body \in FramePostNoteBodies :
          PostNote(body, MaxIds) => (NoTitle(body) => Rejected)
    ]_vars

\* C6 witness: a todo create request with an empty title and an unknown type
\* has been answered 400 while the collections hold entities.
C6_Witness ==
  /\ request.method = "POST" /\ request.path = "/api/todos"
  /\ request.body = [title |-> "", type |-> "bogus"]
  /\ response.status = 400
  /\ Len(todos) > 0 /\ Len(notes) > 0

====
